---- MODULE Spec2Model ----
(***************************************************************************)
(* FAQ management app (src/app.py): a Streamlit script that is re-executed *)
(* from the top on every user interaction, a Notion database client, the   *)
(* sequential FAQ id allocator and the Gemini suggestion call.             *)
(*                                                                         *)
(* Strings the code inspects character by character (FAQ ids, e-mail       *)
(* addresses) are sequences of one-character tokens, so that isdigit, len, *)
(* int, endswith and the 04d format are computed, not assumed.             *)
(***************************************************************************)
EXTENDS Integers, Sequences, FiniteSets, TLC

VARIABLES
    store,          \* the remote Notion database: a sequence of pages (records)
    page_size,      \* how many results the remote returns per query response
    env_ok,         \* presence of NOTION_TOKEN, NOTION_DATABASE_ID, GEMINI_API_KEY
    authenticated,  \* st.session_state.authenticated
    user_info,      \* st.session_state.user_info: <<>> for {}, else <<dict>>
    current_faq,    \* st.session_state.current_faq: <<>> when the key is not set, else <<dict>>
    mode,           \* widget state of the mode radio
    input_method,   \* widget state of the input-method radio
    update_method,  \* widget state of the update-method radio
    uploaded_file,  \* widget state of the CSV file uploader
    run,            \* what the last execution of the script did and rendered
    in_flight       \* per browser session sharing the store: where its submit run
                    \* stands between its allocator call and its create request

vars == <<store, page_size, env_ok, authenticated, user_info, current_faq,
          mode, input_method, update_method, uploaded_file, run, in_flight>>

(***************************************************************************)
(* Bounds of the model.                                                    *)
(***************************************************************************)
MaxIds == 3         \* records in the remote store of the allocator specification
MaxPageSize == 2    \* largest page size the remote answers with
MaxStore == 2       \* records in the remote store of the workflow specification
MaxRows == 2        \* rows of an uploaded CSV file
MaxFailAt == 1      \* a listing may fail at any request up to this one (0: none fails)
MaxSubmits == 1     \* submissions of the add form per session of the two-session specification

(***************************************************************************)
(* Characters.  str.isdigit() accepts every character whose Unicode        *)
(* Numeric_Type is Digit or Decimal; int() accepts only the Decimal ones.  *)
(* "fw5" is FULLWIDTH DIGIT FIVE (decimal, value 5), "sup2" is SUPERSCRIPT *)
(* TWO (a digit for isdigit, not a decimal for int).                       *)
(***************************************************************************)
AsciiDigits == <<"0", "1", "2", "3", "4", "5", "6", "7", "8", "9">>

DecimalChars == {AsciiDigits[i] : i \in 1..10} \cup {"fw5"}

DigitChars == DecimalChars \cup {"sup2"}

CharValue(c) ==
    IF c = "fw5" THEN 5
    ELSE CHOOSE v \in 0..9 : AsciiDigits[v + 1] = c

\* str.isdigit(): non-empty and every character is a digit
isdigit(s) == Len(s) > 0 /\ \A i \in 1..Len(s) : s[i] \in DigitChars

\* whether int(s) returns (TRUE) or raises ValueError (FALSE), for s.isdigit()
IntParses(s) == Len(s) > 0 /\ \A i \in 1..Len(s) : s[i] \in DecimalChars

RECURSIVE IntPrefix(_, _)
IntPrefix(s, n) ==
    IF n = 0 THEN 0 ELSE 10 * IntPrefix(s, n - 1) + CharValue(s[n])

\* int(s) for a string of decimal characters
int(s) == IntPrefix(s, Len(s))

RECURSIVE DecimalDigits(_)
DecimalDigits(n) ==
    IF n < 10 THEN <<AsciiDigits[n + 1]>>
    ELSE DecimalDigits(n \div 10) \o <<AsciiDigits[(n % 10) + 1]>>

RECURSIVE ZeroPad(_, _)
ZeroPad(s, width) == IF Len(s) >= width THEN s ELSE ZeroPad(<<"0">> \o s, width)

\* evaluates e once and hands the value to F, as an assignment to a local does
Bind(e, F(_)) == CHOOSE r \in {F(v) : v \in {e}} : TRUE

\* f"{next_num:04d}": at least four digits, more when the number needs them
Format04d(n) == Bind(DecimalDigits(n), LAMBDA digits : ZeroPad(digits, 4))

FirstId == <<"0", "0", "0", "1">>   \* the literal "0001"

\* max() of a non-empty collection of numbers
MaxOf(S) == CHOOSE x \in S : \A y \in S : x >= y

(***************************************************************************)
(* The remote database query (the Notion API seen from the client).        *)
(* A cursor is the index of the first record of the page it names; the     *)
(* absent cursor (None) is 0 and names the first page.                     *)
(***************************************************************************)
QueryResponse(db, psize, start_cursor) ==
    LET first == start_cursor + 1
        last  == IF start_cursor + psize < Len(db) THEN start_cursor + psize ELSE Len(db)
        more  == last < Len(db)
    IN  [results     |-> SubSeq(db, first, last),
         has_more    |-> more,
         next_cursor |-> IF more THEN last ELSE 0]

\* the ID-property extraction of one result
ExtractId(result) ==
    IF result.ID.kind = "title" THEN result.ID.content
    ELSE IF result.ID.kind = "rich_text" THEN result.ID.content
    ELSE <<>>

\* the per-page loop body: keep the ids that are non-empty and isdigit()
PageIds(results) ==
    SelectSeq([i \in 1..Len(results) |-> ExtractId(results[i])],
              LAMBDA x : Len(x) > 0 /\ isdigit(x))

(***************************************************************************)
(* NotionClient.get_all_faq_ids.  fail_at = k > 0 makes the k-th request   *)
(* raise (transport error, or a body response.json() cannot parse); the    *)
(* except clause then returns the ids gathered so far.  st holds the loop  *)
(* variables start_cursor, all_ids and the requests sent so far.           *)
(***************************************************************************)
RECURSIVE GetAllLoop(_, _, _, _)
GetAllLoop(db, psize, fail_at, st) ==
    LET calls == Append(st.calls, [op |-> "query", start_cursor |-> st.start_cursor])
    IN  IF Len(st.calls) + 1 = fail_at
        THEN [all_ids |-> st.all_ids, calls |-> calls, error |-> TRUE]
        ELSE Bind(QueryResponse(db, psize, st.start_cursor), LAMBDA data :
                 IF data.has_more
                 THEN Bind([start_cursor |-> data.next_cursor,
                            all_ids      |-> st.all_ids \o PageIds(data.results),
                            calls        |-> calls],
                           LAMBDA nxt : GetAllLoop(db, psize, fail_at, nxt))
                 ELSE [all_ids |-> st.all_ids \o PageIds(data.results),
                       calls   |-> calls,
                       error   |-> FALSE])

get_all_faq_ids(db, psize, fail_at) ==
    GetAllLoop(db, psize, fail_at, [start_cursor |-> 0, all_ids |-> <<>>, calls |-> <<>>])

(***************************************************************************)
(* get_next_faq_id.  raised is TRUE when its own except clause ran (max of *)
(* an empty list, or int() of an id that isdigit() accepted).              *)
(***************************************************************************)
FourDigit(all_ids) == SelectSeq(all_ids, LAMBDA x : isdigit(x) /\ Len(x) = 4)

NextFromIds(all_ids) ==
    IF Len(all_ids) = 0 THEN [next_id |-> FirstId, raised |-> FALSE]
    ELSE Bind(FourDigit(all_ids), LAMBDA sel :
            IF Len(sel) = 0 \/ \E i \in 1..Len(sel) : ~IntParses(sel[i])
            THEN [next_id |-> FirstId, raised |-> TRUE]
            ELSE Bind(MaxOf({int(sel[i]) : i \in 1..Len(sel)}), LAMBDA max_num :
                    Bind(max_num + 1, LAMBDA next_num :
                        [next_id |-> Format04d(next_num), raised |-> FALSE])))

get_next_faq_id(db, psize, fail_at) ==
    Bind(get_all_faq_ids(db, psize, fail_at), LAMBDA listed :
        Bind(NextFromIds(listed.all_ids), LAMBDA r :
            [next_id    |-> r.next_id,
             raised     |-> r.raised,
             list_error |-> listed.error,
             all_ids    |-> listed.all_ids,
             calls      |-> listed.calls]))

(***************************************************************************)
(* Values of the workflow.  The selectbox options and the texts are named  *)
(* in ASCII; "Other" is the default option (index 4).                      *)
(***************************************************************************)
Categories == <<"Login", "Payment", "Feature", "Trouble", "Other">>

ALLOWED_DOMAIN == <<"@", "d", "a", "i", ".", "c", "o", ".", "j", "p">>

\* str.endswith
endswith(s, suffix) ==
    /\ Len(s) >= Len(suffix)
    /\ SubSeq(s, Len(s) - Len(suffix) + 1, Len(s)) = suffix

NoData == [faq_id |-> <<>>, question |-> "", answer |-> "", category |-> ""]

\* one outbound HTTP request, with the session flag and the credentials it was sent under
Call(op, target, data, result, s) ==
    [op |-> op, target |-> target, data |-> data, result |-> result,
     authenticated |-> s.authenticated, env_ok |-> s.env_ok]

QueryCalls(calls, s) ==
    [i \in 1..Len(calls) |-> Call("query", calls[i].start_cursor, NoData, "", s)]

(***************************************************************************)
(* NotionClient.add_faq / update_faq / search_faq_by_id.  outcome is what  *)
(* the remote does with the request: "200", another status ("non200"), or  *)
(* an exception raised by the request ("exception").                       *)
(***************************************************************************)
Outcomes == {"200", "non200", "exception"}

\* a create that replaces the record holding the same business id
add_faq_Upsert(db, faq_data, outcome) ==
    LET page == [page_id  |-> Len(db) + 1,
                 ID       |-> [kind |-> "title", content |-> faq_data.faq_id],
                 question |-> faq_data.question,
                 answer   |-> faq_data.answer,
                 category |-> faq_data.category]
        same(r) == r.ID.kind = "title" /\ r.ID.content = faq_data.faq_id
    IN  [ok |-> outcome = "200",
         db |-> IF outcome # "200" THEN db
                ELSE IF \E k \in 1..Len(db) : same(db[k])
                THEN [k \in 1..Len(db) |->
                        IF same(db[k]) THEN [page EXCEPT !.page_id = db[k].page_id]
                        ELSE db[k]]
                ELSE Append(db, page)]

add_faq(db, faq_data, outcome) ==
    [ok |-> outcome = "200",
     db |-> IF outcome = "200"
            THEN Append(db, [page_id  |-> Len(db) + 1,
                             ID       |-> [kind |-> "title", content |-> faq_data.faq_id],
                             question |-> faq_data.question,
                             answer   |-> faq_data.answer,
                             category |-> faq_data.category])
            ELSE db]

update_faq(db, page_id, update_data, outcome) ==
    [ok |-> outcome = "200",
     db |-> IF outcome = "200"
            THEN [i \in 1..Len(db) |->
                    IF db[i].page_id = page_id
                    THEN [db[i] EXCEPT !.question = update_data.question,
                                       !.answer   = update_data.answer,
                                       !.category = update_data.category]
                    ELSE db[i]]
            ELSE db]

\* the result is a sequence: empty for None, else the one dict returned
search_faq_by_id(db, faq_id, outcome) ==
    LET hits == SelectSeq(db, LAMBDA r : r.ID.kind = "title" /\ r.ID.content = faq_id)
    IN  IF outcome # "200" \/ Len(hits) = 0 THEN <<>>
        ELSE <<[page_id  |-> hits[1].page_id,
                faq_id   |-> faq_id,
                question |-> hits[1].question,
                answer   |-> hits[1].answer,
                category |-> hits[1].category]>>

(***************************************************************************)
(* AIAssistant.get_faq_suggestions.  response.kind is "transport" (the     *)
(* request raises), "non2xx" (the library raises on the error status),     *)
(* "nonjson" (json.loads raises) or "json" (json.loads returns             *)
(* response.parsed).  A parsed object is returned as it is, whatever keys  *)
(* it has.                                                                 *)
(***************************************************************************)
ProcessingError == "AI processing error"

SafeDefault(current) ==
    [has_keys           |-> TRUE,
     needs_update       |-> FALSE,
     reason             |-> ProcessingError,
     suggested_question |-> current.question,
     suggested_answer   |-> current.answer]

\* json.loads outside the try block: a body that is not JSON raises to the caller
get_faq_suggestions_ParseUncaught(response, current) ==
    IF response.kind \in {"json", "nonjson"}
    THEN [result |-> response.parsed, raised |-> response.kind = "nonjson"]
    ELSE [result |-> SafeDefault(current), raised |-> FALSE]

get_faq_suggestions(response, current) ==
    IF response.kind = "json"
    THEN [result |-> response.parsed, raised |-> FALSE]
    ELSE [result |-> SafeDefault(current), raised |-> FALSE]

(***************************************************************************)
(* One execution of the script main().  s is the session state and the     *)
(* remote store, w the widget values the browser sends, ev the interaction *)
(* that triggered the execution together with what the remote services     *)
(* answer during it.  A button or form-submit reads True only in the       *)
(* execution triggered by its own click.                                   *)
(***************************************************************************)
Clicked(ev, button) == ev.kind = button

NoReport ==
    [login |-> "none", found |-> "none", add |-> "none", update |-> "none",
     faq_id |-> <<>>, success_count |-> 0, total |-> 0,
     suggestions |-> <<>>, exception |-> FALSE]

Out(s, ui, calls, report) ==
    [s |-> s, ui |-> ui, calls |-> calls, report |-> report, rerun |-> FALSE]

\* lines 269-287: the login gate
LoginPage(s, ev) ==
    IF Clicked(ev, "login")
    THEN IF endswith(ev.email, ALLOWED_DOMAIN)
         THEN [Out([s EXCEPT !.authenticated = TRUE,
                             !.user_info = <<[email |-> ev.email, name |-> ev.name]>>],
                    {"login_form"}, <<>>, [NoReport EXCEPT !.login = "ok"])
               EXCEPT !.rerun = TRUE]
         ELSE Out(s, {"login_form", "domain_error"}, <<>>,
                  [NoReport EXCEPT !.login = "rejected"])
    ELSE Out(s, {"login_form"}, <<>>, NoReport)

\* only the question is tested
Filled_QuestionOnly(question, answer) == question # ""

\* line 347: both fields are required
Filled(question, answer) == question # "" /\ answer # ""

\* lines 326-362: the single-entry form; the allocator runs while the form is drawn
AddSingle(s, ev) ==
    Bind(get_next_faq_id(s.store, s.page_size, ev.list_fail[1]), LAMBDA alloc :
        LET queries == QueryCalls(alloc.calls, s)
            faq_id  == alloc.next_id
            ui      == {"add_faq_form"}
            shown   == [NoReport EXCEPT !.faq_id = faq_id]
        IN  IF Clicked(ev, "submit_add")
            THEN IF Filled(ev.question, ev.answer)
                 THEN Bind([faq_id   |-> faq_id,
                            question |-> ev.question,
                            answer   |-> ev.answer,
                            category |-> ev.category], LAMBDA faq_data :
                      Bind(add_faq(s.store, faq_data, ev.create[1]), LAMBDA res :
                          Out([s EXCEPT !.store = res.db],
                              ui \cup {IF res.ok THEN "add_success" ELSE "add_failed"},
                              Append(queries, Call("create", 0, faq_data, ev.create[1], s)),
                              [shown EXCEPT !.add = IF res.ok THEN "ok" ELSE "failed"])))
                 ELSE Out(s, ui \cup {"validation_error"}, queries,
                          [shown EXCEPT !.add = "invalid"])
            ELSE Out(s, ui, queries, shown))

\* the counter is bumped outside the if
Counted_EveryRow(success_count, ok) == success_count + 1

\* lines 397-398: a created row counts, a failed one does not
Counted(success_count, ok) == IF ok THEN success_count + 1 ELSE success_count

\* lines 384-400: the loop over the rows of the data frame; acc holds the
\* session (with the remote store), the requests sent and success_count
RECURSIVE BatchLoop(_, _, _, _)
BatchLoop(ev, rows, idx, acc) ==
    IF idx > Len(rows)
    THEN acc
    ELSE Bind(get_next_faq_id(acc.s.store, acc.s.page_size, ev.list_fail[idx]),
              LAMBDA alloc :
         Bind([faq_id   |-> alloc.next_id,
               question |-> rows[idx].question,
               answer   |-> rows[idx].answer,
               category |-> rows[idx].category], LAMBDA faq_data :
         Bind(add_faq(acc.s.store, faq_data, ev.create[idx]), LAMBDA res :
         Bind([s     |-> [acc.s EXCEPT !.store = res.db],
               calls |-> acc.calls \o QueryCalls(alloc.calls, acc.s)
                          \o <<Call("create", 0, faq_data, ev.create[idx], acc.s)>>,
               success_count |-> Counted(acc.success_count, res.ok)], LAMBDA nxt :
             BatchLoop(ev, rows, idx + 1, nxt)))))

\* lines 364-405: CSV upload and batch add
AddBatch(s, w, ev) ==
    LET ui == {"file_uploader"}
    IN  IF w.uploaded_file.state = "none" THEN Out(s, ui, <<>>, NoReport)
        ELSE IF w.uploaded_file.state = "malformed"
        THEN Out(s, ui \cup {"csv_error"}, <<>>, NoReport)
        ELSE IF Clicked(ev, "batch_add")
        THEN Bind(BatchLoop(ev, w.uploaded_file.rows, 1,
                            [s |-> s, calls |-> <<>>, success_count |-> 0]),
                  LAMBDA done :
                      Out(done.s, ui \cup {"dataframe", "batch_button", "batch_report"},
                          done.calls,
                          [NoReport EXCEPT !.success_count = done.success_count,
                                           !.total = Len(w.uploaded_file.rows)]))
        ELSE Out(s, ui \cup {"dataframe", "batch_button"}, <<>>, NoReport)

\* lines 413-424: the search button
UpdateSearch(s, ev) ==
    IF Clicked(ev, "search")
    THEN IF ev.search_id # <<>>
         THEN Bind(search_faq_by_id(s.store, ev.search_id, ev.find), LAMBDA faq_data :
                  LET call == Call("find", 0, [NoData EXCEPT !.faq_id = ev.search_id],
                                   ev.find, s)
                  IN  IF faq_data # <<>>
                      THEN Out([s EXCEPT !.current_faq = faq_data],
                               {"search_button", "found"}, <<call>>,
                               [NoReport EXCEPT !.found = "hit"])
                      ELSE Out(s, {"search_button", "not_found"}, <<call>>,
                               [NoReport EXCEPT !.found = "miss"]))
         ELSE Out(s, {"search_button", "search_id_warning"}, <<>>,
                  [NoReport EXCEPT !.found = "empty"])
    ELSE Out(s, {"search_button"}, <<>>, NoReport)

\* the key is left in the session
DelCurrentFaq_Kept(s) == s

\* lines 470 and 525: del st.session_state.current_faq
DelCurrentFaq(s) == [s EXCEPT !.current_faq = <<>>]

\* lines 460-472 and 515-527: build update_data, call update_faq, clear on success
SubmitUpdate(o, ui, calls, report, ev) ==
    LET current == o.s.current_faq[1]
    IN  Bind([faq_id   |-> <<>>,
              question |-> ev.question,
              answer   |-> ev.answer,
              category |-> ev.category], LAMBDA update_data :
        Bind(update_faq(o.s.store, current.page_id, update_data, ev.update), LAMBDA res :
            LET call == Call("update", current.page_id, update_data, ev.update, o.s)
            IN  IF res.ok
                THEN Out(DelCurrentFaq([o.s EXCEPT !.store = res.db]),
                         ui \cup {"update_success"}, Append(calls, call),
                         [report EXCEPT !.update = "ok"])
                ELSE Out(o.s, ui \cup {"update_failed"}, Append(calls, call),
                         [report EXCEPT !.update = "failed"])))

\* lines 444-472: the manual update form
ManualUpdate(o, ev) ==
    LET ui == o.ui \cup {"manual_update_form"}
    IN  IF Clicked(ev, "submit_manual")
        THEN SubmitUpdate(o, ui, o.calls, o.report, ev)
        ELSE Out(o.s, ui, o.calls, o.report)

\* lines 474-534: the Gemini suggestion branch; the update form and its submit
\* button are inside the block of the generate button
AIUpdate(o, ev) ==
    LET ui == o.ui \cup {"update_content_input", "generate_button"}
    IN  IF Clicked(ev, "generate")
        THEN IF ev.update_content # ""
             THEN Bind(get_faq_suggestions(ev.ai, o.s.current_faq[1]), LAMBDA got :
                  LET suggestions == got.result
                      calls  == Append(o.calls, Call("generate", 0, NoData, ev.ai.kind, o.s))
                      report == [o.report EXCEPT !.suggestions = <<suggestions>>]
                  IN  IF got.raised \/ ~suggestions.has_keys
                      THEN Out(o.s, ui \cup {"exception"}, calls,
                               [report EXCEPT !.exception = TRUE])
                      ELSE IF suggestions.needs_update
                      THEN IF Clicked(ev, "submit_ai")
                           THEN SubmitUpdate(o, ui \cup {"update_recommended", "ai_update_form"},
                                             calls, report, ev)
                           ELSE Out(o.s, ui \cup {"update_recommended", "ai_update_form"},
                                    calls, report)
                      ELSE Out(o.s, ui \cup {"no_update_needed"}, calls, report))
             ELSE Out(o.s, ui \cup {"update_content_warning"}, o.calls, o.report)
        ELSE Out(o.s, ui, o.calls, o.report)

\* lines 407-534: update mode; the forms are gated on the session key alone
UpdateMode(s, w, ev) ==
    Bind(UpdateSearch(s, ev), LAMBDA searched :
        IF searched.s.current_faq # <<>>
        THEN Bind([searched EXCEPT
                      !.ui = @ \cup {"current_faq_details", "update_method_radio"}],
                  LAMBDA shown :
                      IF w.update_method = "manual"
                      THEN ManualUpdate(shown, ev)
                      ELSE AIUpdate(shown, ev))
        ELSE searched)

\* lines 298-301: the configuration check
EnvMissing(s) == ~(s.env_ok.NOTION_TOKEN /\ s.env_ok.NOTION_DATABASE_ID /\ s.env_ok.GEMINI_API_KEY)

\* lines 293-295: what the logout button does to the session before st.rerun()
LogoutSession(s) == [s EXCEPT !.authenticated = FALSE, !.user_info = <<>>]

\* lines 298-534: the application behind the login gate and the logout button
MainApp(s, w, ev) ==
    IF EnvMissing(s)
    THEN Out(s, {"logout_button", "env_error"}, <<>>, NoReport)
    ELSE Bind(IF w.mode = "add"
              THEN Bind(IF w.input_method = "single"
                        THEN AddSingle(s, ev)
                        ELSE AddBatch(s, w, ev),
                        LAMBDA sec : [sec EXCEPT !.ui = @ \cup {"input_method_radio"}])
              ELSE UpdateMode(s, w, ev),
              LAMBDA body : [body EXCEPT !.ui = @ \cup {"logout_button", "mode_radio"}])

\* the gate tests that the key exists, not its value
NotAuthenticated_KeyOnly(s) == s.authenticated \notin BOOLEAN

\* lines 269 and 287: nothing behind the gate runs for an unauthenticated session
NotAuthenticated(s) == ~s.authenticated

Rerun(ev) == [ev EXCEPT !.kind = "rerun"]

\* lines 252-545: main().  st.rerun() (lines 284 and 296) abandons the execution
\* and runs the script again from the top with no button clicked: after the
\* login that is the application (the flag was just set), after the logout it
\* is the login page (the flag was just cleared).
main(s, w, ev) ==
    IF NotAuthenticated(s)
    THEN Bind(LoginPage(s, ev), LAMBDA page :
             IF page.rerun
             THEN Bind(Rerun(ev), LAMBDA again :
                      [MainApp(page.s, w, again) EXCEPT !.report = page.report])
             ELSE page)
    ELSE IF Clicked(ev, "logout")
    THEN Bind(LogoutSession(s), LAMBDA cleared : LoginPage(cleared, Rerun(ev)))
    ELSE MainApp(s, w, ev)

(***************************************************************************)
(* Inputs of the interactions.                                             *)
(***************************************************************************)
Id0005 == <<"0", "0", "0", "5">>
Id0006 == <<"0", "0", "0", "6">>

Emails ==
    { <<"u", "@", "d", "a", "i", ".", "c", "o", ".", "j", "p">>,
      <<"u", "@", "o", "t", "h", "e", "r", ".", "c", "o", "m">>,
      <<"u", "@", "d", "a", "i", ".", "c", "o", ".", "j", "p", ".", "x">>,
      <<>> }

Names == {"N"}
AddTexts == {"", "t1"}
EditTexts == {"", "t2"}
AddCategories == {Categories[5]}
EditCategories == {Categories[4]}
SearchIds == {<<>>, Id0005, Id0006}

\* the i-th row of an uploaded file; neighbouring rows differ
Row(i) ==
    IF i % 2 = 1
    THEN [question |-> "t1", answer |-> "t1", category |-> Categories[1]]
    ELSE [question |-> "t2", answer |-> "", category |-> Categories[5]]

NoFile == [state |-> "none", rows |-> <<>>]

\* a file pd.read_csv rejects, and the files of 0..MaxRows rows
Files ==
    {[state |-> "malformed", rows |-> <<>>]}
    \cup {[state |-> "ok", rows |-> [i \in 1..n |-> Row(i)]] : n \in 0..MaxRows}

Suggested(needs_update) ==
    [has_keys |-> TRUE, needs_update |-> needs_update, reason |-> "r",
     suggested_question |-> "t2", suggested_answer |-> "t2"]

\* a JSON value without the key needs_update
NoKeys == [Suggested(TRUE) EXCEPT !.has_keys = FALSE]

AIResponses ==
    {[kind |-> "json", parsed |-> p] : p \in {Suggested(TRUE), Suggested(FALSE), NoKeys}}
    \cup {[kind |-> k, parsed |-> Suggested(TRUE)] : k \in {"transport", "non2xx", "nonjson"}}

Event(kind) ==
    [kind |-> kind, email |-> <<>>, name |-> "", question |-> "", answer |-> "",
     category |-> Categories[5], search_id |-> <<>>, update_content |-> "",
     list_fail |-> <<0>>, create |-> <<"200">>, find |-> "200", update |-> "200",
     ai |-> [kind |-> "json", parsed |-> Suggested(FALSE)]]

(***************************************************************************)
(* State.                                                                  *)
(***************************************************************************)
Sess ==
    [authenticated |-> authenticated, user_info |-> user_info,
     current_faq |-> current_faq, store |-> store,
     page_size |-> page_size, env_ok |-> env_ok]

Widgets ==
    [mode |-> mode, input_method |-> input_method,
     update_method |-> update_method, uploaded_file |-> uploaded_file]

Record(id, q, a, c, n) ==
    [page_id |-> n, ID |-> [kind |-> "title", content |-> id],
     question |-> q, answer |-> a, category |-> c]

SeedStores == {<<>>, <<Record(Id0005, "t1", "t1", Categories[1], 1)>>}

RunOf(ev, o) ==
    [event |-> ev.kind, ev |-> ev, ui |-> o.ui, calls |-> o.calls, report |-> o.report]

\* the first execution of the script, when the page is opened
Init ==
    /\ store \in SeedStores
    /\ page_size = 1
    /\ env_ok \in [NOTION_TOKEN : BOOLEAN, NOTION_DATABASE_ID : BOOLEAN,
                   GEMINI_API_KEY : BOOLEAN]
    /\ authenticated = FALSE
    /\ user_info = <<>>
    /\ current_faq = <<>>
    /\ mode = "add"
    /\ input_method = "single"
    /\ update_method = "manual"
    /\ uploaded_file = NoFile
    /\ run = RunOf(Event("load"), Out(<<>>, {"login_form"}, <<>>, NoReport))
    /\ in_flight = <<>>

\* an interaction: the browser sends the widget values w and the script runs;
\* a widget the execution did not render loses its value
Interact(w, ev) ==
    \E s0 \in {Sess}, w0 \in {w}, ev0 \in {ev} :
    \E o \in {main(s0, w0, ev0)} :
        /\ store' = o.s.store
        /\ authenticated' = o.s.authenticated
        /\ user_info' = o.s.user_info
        /\ current_faq' = o.s.current_faq
        /\ mode' = IF "mode_radio" \in o.ui THEN w0.mode ELSE "add"
        /\ input_method' = IF "input_method_radio" \in o.ui THEN w0.input_method ELSE "single"
        /\ update_method' = IF "update_method_radio" \in o.ui THEN w0.update_method ELSE "manual"
        /\ uploaded_file' = IF "file_uploader" \in o.ui THEN w0.uploaded_file ELSE NoFile
        /\ run' = RunOf(ev0, o)
        /\ UNCHANGED <<page_size, env_ok, in_flight>>

Login(email, name, list_fail) ==
    /\ "login_form" \in run.ui
    /\ Interact(Widgets, [Event("login") EXCEPT !.email = email, !.name = name,
                                                !.list_fail = <<list_fail>>])

Logout ==
    /\ "logout_button" \in run.ui
    /\ Interact(Widgets, Event("logout"))

SelectMode(m, list_fail) ==
    /\ "mode_radio" \in run.ui
    /\ m # mode
    /\ Interact([Widgets EXCEPT !.mode = m],
                [Event("select_mode") EXCEPT !.list_fail = <<list_fail>>])

SelectInputMethod(m, list_fail) ==
    /\ "input_method_radio" \in run.ui
    /\ m # input_method
    /\ Interact([Widgets EXCEPT !.input_method = m],
                [Event("select_input_method") EXCEPT !.list_fail = <<list_fail>>])

SelectUpdateMethod(m) ==
    /\ "update_method_radio" \in run.ui
    /\ m # update_method
    /\ Interact([Widgets EXCEPT !.update_method = m], Event("select_update_method"))

Upload(file) ==
    /\ "file_uploader" \in run.ui
    /\ file # uploaded_file
    /\ Interact([Widgets EXCEPT !.uploaded_file = file], Event("upload"))

SubmitAdd(question, answer, category, list_fail, create) ==
    /\ "add_faq_form" \in run.ui
    /\ Len(store) < MaxStore
    /\ Interact(Widgets, [Event("submit_add") EXCEPT
                             !.question = question, !.answer = answer,
                             !.category = category,
                             !.list_fail = <<list_fail>>, !.create = <<create>>])

BatchAdd(list_fail, create) ==
    /\ "batch_button" \in run.ui
    /\ Len(store) + Len(uploaded_file.rows) <= MaxStore
    /\ Interact(Widgets, [Event("batch_add") EXCEPT
                             !.list_fail = list_fail, !.create = create])

Search(search_id, find) ==
    /\ "search_button" \in run.ui
    /\ Interact(Widgets, [Event("search") EXCEPT !.search_id = search_id, !.find = find])

SubmitManual(question, answer, category, update) ==
    /\ "manual_update_form" \in run.ui
    /\ Interact(Widgets, [Event("submit_manual") EXCEPT
                             !.question = question, !.answer = answer,
                             !.category = category, !.update = update])

Generate(update_content, ai) ==
    /\ "generate_button" \in run.ui
    /\ Interact(Widgets, [Event("generate") EXCEPT
                             !.update_content = update_content, !.ai = ai])

SubmitAI(question, answer, category) ==
    /\ "ai_update_form" \in run.ui
    /\ Interact(Widgets, [Event("submit_ai") EXCEPT
                             !.question = question, !.answer = answer,
                             !.category = category])

ListFails == 0..MaxFailAt

Next ==
    \/ \E email \in Emails, name \in Names, f \in ListFails : Login(email, name, f)
    \/ Logout
    \/ \E m \in {"add", "update"}, f \in ListFails : SelectMode(m, f)
    \/ \E m \in {"single", "csv"}, f \in ListFails : SelectInputMethod(m, f)
    \/ \E m \in {"manual", "ai"} : SelectUpdateMethod(m)
    \/ \E file \in Files : Upload(file)
    \/ \E q \in AddTexts, a \in AddTexts, c \in AddCategories,
          f \in ListFails, cr \in Outcomes : SubmitAdd(q, a, c, f, cr)
    \/ \E f \in [1..Len(uploaded_file.rows) -> ListFails],
          cr \in [1..Len(uploaded_file.rows) -> Outcomes] : BatchAdd(f, cr)
    \/ \E id \in SearchIds, find \in Outcomes : Search(id, find)
    \/ \E q \in EditTexts, a \in EditTexts, c \in EditCategories,
          u \in Outcomes : SubmitManual(q, a, c, u)
    \/ \E content \in {"", "notes"}, ai \in AIResponses : Generate(content, ai)
    \/ \E q \in EditTexts, a \in EditTexts, c \in EditCategories : SubmitAI(q, a, c)

Spec == Init /\ [][Next]_vars

(***************************************************************************)
(* The allocator on its own: the remote store holds any records (any ID    *)
(* property, spread over pages of any size), and get_next_faq_id is called *)
(* on it, with or without a failing listing request.                       *)
(***************************************************************************)
Chars4(c) == <<c, c, c, c>>

IdProperties ==
    { [kind |-> "title",     content |-> <<"0", "0", "0", "1">>],
      [kind |-> "title",     content |-> <<"0", "0", "0", "3">>],
      [kind |-> "rich_text", content |-> <<"0", "0", "0", "7">>],
      [kind |-> "title",     content |-> <<"9", "9", "9", "9">>],
      [kind |-> "title",     content |-> <<"1", "2">>],
      [kind |-> "title",     content |-> <<"A", "B", "C", "D">>],
      [kind |-> "title",     content |-> Chars4("fw5")],
      [kind |-> "title",     content |-> Chars4("sup2")],
      [kind |-> "none",      content |-> <<>>] }

StoreOf(props) ==
    [i \in 1..Len(props) |->
        [page_id |-> i, ID |-> props[i], question |-> "t1", answer |-> "t1",
         category |-> Categories[5]]]

AllocRun(fail_at, result) == [event |-> "allocate", fail_at |-> fail_at, result |-> result]

InitAlloc ==
    /\ store \in {StoreOf(props) : props \in UNION {[1..n -> IdProperties] : n \in 0..MaxIds}}
    /\ page_size \in 1..MaxPageSize
    /\ env_ok = [NOTION_TOKEN |-> TRUE, NOTION_DATABASE_ID |-> TRUE, GEMINI_API_KEY |-> TRUE]
    /\ authenticated = TRUE
    /\ user_info = <<>>
    /\ current_faq = <<>>
    /\ mode = "add"
    /\ input_method = "single"
    /\ update_method = "manual"
    /\ uploaded_file = NoFile
    /\ run = [event |-> "load", fail_at |-> 0, result |-> get_next_faq_id(<<>>, 1, 0)]
    /\ in_flight = <<>>

Allocate(fail_at) ==
    /\ run' = AllocRun(fail_at, get_next_faq_id(store, page_size, fail_at))
    /\ UNCHANGED <<store, page_size, env_ok, authenticated, user_info, current_faq,
                   mode, input_method, update_method, uploaded_file, in_flight>>

NextAlloc == \E fail_at \in 0..MaxIds : Allocate(fail_at)

SpecAlloc == InitAlloc /\ [][NextAlloc]_vars

(***************************************************************************)
(* Two browser sessions on the same store, both logged in and on the       *)
(* single-entry form.  The execution a submit triggers sends the listing   *)
(* requests of get_next_faq_id and then, as a separate request, the create *)
(* of add_faq; requests of the other session can reach the store between   *)
(* the two.  The listing is taken as one step.  seen is the number of      *)
(* records the store held when the listing was taken.                      *)
(***************************************************************************)
Sessions == {1, 2}

AtForm ==
    [pc |-> "form", faq_data |-> NoData, list_error |-> FALSE, raised |-> FALSE,
     seen |-> 0, ok |-> FALSE, submits |-> 0]

InitSessions ==
    /\ store \in {StoreOf(props) : props \in UNION {[1..n -> IdProperties] : n \in 0..1}}
    /\ page_size \in 1..MaxPageSize
    /\ env_ok = [NOTION_TOKEN |-> TRUE, NOTION_DATABASE_ID |-> TRUE, GEMINI_API_KEY |-> TRUE]
    /\ authenticated = TRUE
    /\ user_info = <<>>
    /\ current_faq = <<>>
    /\ mode = "add"
    /\ input_method = "single"
    /\ update_method = "manual"
    /\ uploaded_file = NoFile
    /\ run = [event |-> "load", fail_at |-> 0, result |-> get_next_faq_id(<<>>, 1, 0)]
    /\ in_flight = [i \in Sessions |-> AtForm]

\* lines 342-353: session i submits the form; its execution calls the allocator
\* and builds faq_data, or rejects the empty submission
SessionSubmit(i, question, answer, fail_at) ==
    /\ in_flight[i].pc # "allocated"
    /\ in_flight[i].submits < MaxSubmits
    /\ \E alloc \in {get_next_faq_id(store, page_size, fail_at)} :
          in_flight' = [in_flight EXCEPT ![i] =
              [pc         |-> IF Filled(question, answer) THEN "allocated" ELSE "rejected",
               faq_data   |-> [faq_id   |-> alloc.next_id,
                               question |-> question,
                               answer   |-> answer,
                               category |-> Categories[5]],
               list_error |-> alloc.list_error,
               raised     |-> alloc.raised,
               seen       |-> Len(store),
               ok         |-> FALSE,
               submits    |-> @.submits + 1]]
    /\ UNCHANGED <<store, page_size, env_ok, authenticated, user_info, current_faq,
                   mode, input_method, update_method, uploaded_file, run>>

\* lines 355-360: the create request of session i reaches the store
SessionCreate(i, outcome) ==
    /\ in_flight[i].pc = "allocated"
    /\ \E res \in {add_faq(store, in_flight[i].faq_data, outcome)} :
          /\ store' = res.db
          /\ in_flight' = [in_flight EXCEPT ![i].pc = "done", ![i].ok = res.ok]
    /\ UNCHANGED <<page_size, env_ok, authenticated, user_info, current_faq,
                   mode, input_method, update_method, uploaded_file, run>>

NextSessions ==
    \/ \E i \in Sessions, q \in AddTexts, a \in AddTexts, f \in ListFails :
          SessionSubmit(i, q, a, f)
    \/ \E i \in Sessions, cr \in Outcomes : SessionCreate(i, cr)

SpecSessions == InitSessions /\ [][NextSessions]_vars

(***************************************************************************)
(* What the claims about the allocator speak of, stated over the whole     *)
(* store and not over what the listing returned.                           *)
(***************************************************************************)
StoredIds == {ExtractId(store[i]) : i \in 1..Len(store)}

\* the ids that are four decimal digits, and the numbers they write
FourDigitIds == {id \in StoredIds : Len(id) = 4 /\ \A i \in 1..4 : id[i] \in DecimalChars}

FourDigitNumbers ==
    {1000 * CharValue(id[1]) + 100 * CharValue(id[2]) + 10 * CharValue(id[3])
        + CharValue(id[4]) : id \in FourDigitIds}

\* a number below 10000 written with exactly four ASCII digits
FourDigits(n) ==
    <<AsciiDigits[(n \div 1000) + 1], AsciiDigits[((n \div 100) % 10) + 1],
      AsciiDigits[((n \div 10) % 10) + 1], AsciiDigits[(n % 10) + 1]>>

Allocated == run.event = "allocate"

\* C1: with no remote failure, get_next_faq_id returns "0001" when the store
\* holds no four-digit id, and otherwise the maximum of the four-digit ids of
\* all pages plus one, written with four digits, when that maximum is below
\* 9999; ids that are not numeric or not four characters long do not change
\* the result.
C1_NextIdIsMaxPlusOne ==
    (Allocated /\ ~run.result.list_error) =>
        IF FourDigitNumbers = {}
        THEN run.result.next_id = FirstId
        ELSE MaxOf(FourDigitNumbers) < 9999 =>
                run.result.next_id = FourDigits(MaxOf(FourDigitNumbers) + 1)

\* C10: whenever a listing request failed (the first or a later one) or the
\* maximum could not be computed, get_next_faq_id returns "0001".
C10_FailureGivesFirstId ==
    (Allocated /\ (run.result.list_error \/ run.result.raised)) =>
        run.result.next_id = FirstId

\* the store holds an id that str.isdigit() accepts and int() rejects
HasUnparsableDigits ==
    \E id \in StoredIds : isdigit(id) /\ Len(id) = 4 /\ ~IntParses(id)

\* the statement of C1 restricted to stores whose isdigit() ids all parse
NextIdWhenAllParse == HasUnparsableDigits \/ C1_NextIdIsMaxPlusOne

\* the statement of C10 restricted to a failure of the first request
FirstIdWhenFirstRequestFails ==
    (Allocated /\ run.fail_at = 1) => run.result.next_id = FirstId

\* C12: for every store content, a maximum of "9999" included, the id that
\* get_next_faq_id returns is a string of exactly four decimal digits.
C12_NextIdHasFourDigits ==
    Allocated =>
        /\ Len(run.result.next_id) = 4
        /\ \A i \in 1..Len(run.result.next_id) :
              \E v \in 1..10 : run.result.next_id[i] = AsciiDigits[v]

\* the statement of C12 restricted to stores whose four-digit ids stay below 9999
FourDigitsBelowMaximum ==
    (\E n \in FourDigitNumbers : n >= 9999) \/ C12_NextIdHasFourDigits

(***************************************************************************)
(* The workflow: what the last execution of the script sent and rendered.  *)
(***************************************************************************)
CallsOf(op) == SelectSeq(run.calls, LAMBDA c : c.op = op)

Configured(env) == env.NOTION_TOKEN /\ env.NOTION_DATABASE_ID /\ env.GEMINI_API_KEY

EditFormShown == "manual_update_form" \in run.ui \/ "ai_update_form" \in run.ui

\* C2: a request to the store or to the generative API is sent only by an
\* authenticated session with all three credentials present; the session
\* becomes authenticated only by a login whose e-mail ends with the allowed
\* domain, and a logout leaves it unauthenticated.
C2_CallsOnlyBehindGate ==
    /\ [](\A i \in 1..Len(run.calls) :
            run.calls[i].authenticated /\ Configured(run.calls[i].env_ok))
    /\ [](run.calls # <<>> => authenticated /\ Configured(env_ok))
    /\ [][(~authenticated /\ authenticated') =>
            (run'.event = "login" /\ endswith(run'.ev.email, ALLOWED_DOMAIN))]_vars
    /\ [][run'.event = "logout" => ~authenticated']_vars

C2_Witness ==
    /\ run.event = "login"
    /\ authenticated
    /\ Len(CallsOf("query")) > 0

\* C3: when a search finds no record, the page reports not-found and shows
\* no edit form, whether or not an earlier search had loaded a record.
C3_NoFormAfterMiss ==
    (run.event = "search" /\ run.report.found = "miss") =>
        ("not_found" \in run.ui /\ ~EditFormShown)

\* C4: submitting the form that a needs_update suggestion rendered sends
\* exactly one update request, for the loaded record's page id and with the
\* submitted question, answer and category.
C4_AISubmitUpdates ==
    [][("ai_update_form" \in run.ui /\ run'.event = "submit_ai") =>
         \E c \in {[op |-> "update", target |-> current_faq[1].page_id,
                    data |-> [faq_id |-> <<>>, question |-> run'.ev.question,
                              answer |-> run'.ev.answer,
                              category |-> run'.ev.category],
                    result |-> run'.ev.update,
                    authenticated |-> TRUE, env_ok |-> env_ok]} :
            SelectSeq(run'.calls, LAMBDA x : x.op = "update") = <<c>>]_vars

\* C5: a successful update removes the loaded record from the session, an
\* update request is sent only while a record is loaded, and a record gets
\* loaded only by a search that hits.
C5_NoUpdateUntilNextHit ==
    [][/\ run'.report.update = "ok" => current_faq' = <<>>
       /\ Len(SelectSeq(run'.calls, LAMBDA x : x.op = "update")) > 0 => current_faq # <<>>
       /\ (current_faq = <<>> /\ current_faq' # <<>>) =>
             (run'.event = "search" /\ run'.report.found = "hit")]_vars

C5_Witness ==
    /\ run.event = "submit_manual"
    /\ run.report.update = "ok"
    /\ Len(CallsOf("update")) = 1
    /\ current_faq = <<>>

\* C6: a batch of N rows sends exactly one create request per row, in row
\* order, each after a listing of its own, whatever the earlier rows'
\* outcomes, and reports the number of successful creates out of N.
C6_BatchCreatesEveryRow ==
    run.event = "batch_add" =>
        LET rows    == uploaded_file.rows
            creates == CallsOf("create")
        IN  /\ Len(creates) = Len(rows)
            /\ \A i \in 1..Len(creates) :
                  /\ creates[i].data.question = rows[i].question
                  /\ creates[i].data.answer = rows[i].answer
                  /\ creates[i].data.category = rows[i].category
                  /\ creates[i].result = run.ev.create[i]
            /\ \A j \in 1..Len(run.calls) :
                  /\ run.calls[j].op \in {"query", "create"}
                  /\ run.calls[j].op = "create" =>
                        \E q \in 1..(j - 1) :
                            /\ run.calls[q].op = "query"
                            /\ run.calls[q].target = 0
                            /\ \A k \in q..(j - 1) : run.calls[k].op = "query"
            /\ "batch_report" \in run.ui
            /\ run.report.total = Len(rows)
            /\ run.report.success_count =
                  Cardinality({i \in 1..Len(creates) : creates[i].result = "200"})

C6_Witness ==
    /\ run.event = "batch_add"
    /\ Len(uploaded_file.rows) = 2
    /\ run.ev.create[1] # "200"
    /\ run.ev.create[2] = "200"
    /\ run.report.success_count = 1

EmptySubmit ==
    run.event = "submit_add" /\ (run.ev.question = "" \/ run.ev.answer = "")

\* C7 as stated: an Add-Single submit with an empty question or answer shows
\* the validation message and sends no request at all to the store.
C7_NoRequestOnEmptySubmit ==
    EmptySubmit => ("validation_error" \in run.ui /\ run.calls = <<>>)

\* C7 as amended: such a submit shows the validation message and sends no
\* create request; the requests it sends are the listing queries of the
\* allocator, which runs whenever the form is drawn.
C7_NoCreateOnEmptySubmit ==
    EmptySubmit =>
        /\ "validation_error" \in run.ui
        /\ "add_success" \notin run.ui
        /\ run.report.add = "invalid"
        /\ \A i \in 1..Len(run.calls) : run.calls[i].op = "query"

C7_Witness ==
    /\ run.event = "submit_add"
    /\ run.ev.question # ""
    /\ run.ev.answer = ""
    /\ "validation_error" \in run.ui
    /\ Len(CallsOf("query")) > 0

AIFailed ==
    /\ run.event = "generate"
    /\ run.ev.update_content # ""
    /\ run.ev.ai.kind \in {"transport", "non2xx", "nonjson"}

\* C8: when the generative call fails in transport, with an error status or
\* with a body that is not JSON, get_faq_suggestions raises nothing and
\* returns needs_update false, the processing-error reason and the current
\* question and answer; the page then reports that no update is needed,
\* shows no update form and sends no update request.
C8_SafeDefaultOnAIFailure ==
    AIFailed =>
        /\ run.report.suggestions =
              <<[has_keys           |-> TRUE,
                 needs_update       |-> FALSE,
                 reason             |-> ProcessingError,
                 suggested_question |-> current_faq[1].question,
                 suggested_answer   |-> current_faq[1].answer]>>
        /\ ~run.report.exception
        /\ "no_update_needed" \in run.ui
        /\ "ai_update_form" \notin run.ui
        /\ CallsOf("update") = <<>>

C8_Witness ==
    /\ AIFailed
    /\ run.ev.ai.kind = "nonjson"
    /\ "no_update_needed" \in run.ui

\* C9: a logout leaves the session unauthenticated, without a user and
\* without a loaded record.
C9_LogoutDiscardsSession ==
    run.event = "logout" =>
        (~authenticated /\ user_info = <<>> /\ current_faq = <<>>)

(***************************************************************************)
(* Two sessions on one store.                                              *)
(***************************************************************************)
\* the records of the store whose business id is id
WithId(id) == {k \in 1..Len(store) : ExtractId(store[k]) = id}

\* sessions i and j both took a complete listing of the same store content,
\* that is before the create of either was applied, and both went on to create
Raced(i, j) ==
    /\ i # j
    /\ in_flight[i].pc \in {"allocated", "done"}
    /\ in_flight[j].pc \in {"allocated", "done"}
    /\ in_flight[i].seen = in_flight[j].seen
    /\ ~in_flight[i].list_error
    /\ ~in_flight[j].list_error

BothCreated(i, j) ==
    /\ in_flight[i].pc = "done" /\ in_flight[i].ok
    /\ in_flight[j].pc = "done" /\ in_flight[j].ok

\* C11: the allocator gives two sessions no collision protection: whenever
\* both complete their allocator call before the create of either is
\* applied, both hold the same id, and once both creates have succeeded the
\* store holds two records with that business id.
C11_SameIdCreatedTwice ==
    \A i \in Sessions, j \in Sessions :
        Raced(i, j) =>
            /\ in_flight[i].faq_data.faq_id = in_flight[j].faq_data.faq_id
            /\ BothCreated(i, j) =>
                    Cardinality(WithId(in_flight[i].faq_data.faq_id)) >= 2

C11_Witness ==
    \E i \in Sessions, j \in Sessions :
        /\ Raced(i, j)
        /\ BothCreated(i, j)
        /\ in_flight[i].faq_data.faq_id = in_flight[j].faq_data.faq_id
        /\ \E k \in 1..Len(store), l \in 1..Len(store) :
              /\ k # l
              /\ ExtractId(store[k]) = in_flight[i].faq_data.faq_id
              /\ ExtractId(store[l]) = in_flight[i].faq_data.faq_id
====
